---- MODULE Spec2Model ----
(***************************************************************************)
(* State-machine model of the USB data transfer module                     *)
(* (Plouton-UEFI/Plouton/hardware/usb_data_transfer.c and .h).             *)
(*                                                                         *)
(* One USB_DATA_CONTEXT (the static gUsbDataContext of the integration     *)
(* example), the log file behind Context->LogFile, and one action per      *)
(* public function.  Every action runs the whole call, including the       *)
(* STATIC helpers it reaches (AddToBuffer, UsbDataFlush, WriteToFile).     *)
(*                                                                         *)
(* Sizes are scaled down: the buffer, the timestamp prefix and the stack   *)
(* scratch buffers keep the order relation of the configured sizes         *)
(* (capacity >= prefix + longest formatted line + 2) but are a few bytes   *)
(* long.  A "byte" is one token: a data character, or a whole literal run  *)
(* of a format string, or the digits of one %d.                            *)
(***************************************************************************)
EXTENDS Integers, Sequences, FiniteSets, TLC

(***************************************************************************)
(* Sizes (scaled) and exploration bounds.                                  *)
(***************************************************************************)
\* USB_DATA_BUFFER_SIZE (64 * 1024 in usb_data_transfer.h:27), scaled.
USB_DATA_BUFFER_SIZE == 16
\* Length of "[%04d-%02d-%02d %02d:%02d:%02d] " (22 characters), scaled.
TimeStampLength == 2
\* sizeof(FormattedData) in UsbDataWrite (256), scaled.
FormattedDataSize == 8
\* sizeof(JsonBuffer) in UsbDataLogJson (512), scaled.
JsonBufferSize == 10
\* sizeof(CsvBuffer) in UsbDataLogCsv (256), scaled.
CsvBufferSize == 8
\* sizeof(FormattedBuffer) in UsbDataPrintf (1024), scaled.
PrintfBufferSize == 12
\* USB_DATA_MAX_FILE_SIZE (1024 * 1024 in usb_data_transfer.h:25), scaled.
USB_DATA_MAX_FILE_SIZE == 8
\* Longest file explored: a successful file write that would make the log
\* file longer is not explored.
MaxFileLen == 16
\* Largest explored value of WriteErrors and of BufferOverflows.
MaxErrors == 1

(***************************************************************************)
(* EFI_STATUS values and the EFI_ERROR macro.                              *)
(***************************************************************************)
EFI_SUCCESS == "EFI_SUCCESS"
EFI_INVALID_PARAMETER == "EFI_INVALID_PARAMETER"
EFI_NOT_READY == "EFI_NOT_READY"
EFI_BUFFER_TOO_SMALL == "EFI_BUFFER_TOO_SMALL"
EFI_OUT_OF_RESOURCES == "EFI_OUT_OF_RESOURCES"
EFI_NOT_FOUND == "EFI_NOT_FOUND"
EFI_DEVICE_ERROR == "EFI_DEVICE_ERROR"

EFI_ERROR(s) == s # EFI_SUCCESS

(***************************************************************************)
(* USB_DATA_FORMAT and USB_DATA_STATUS.                                    *)
(***************************************************************************)
USB_DATA_FORMAT == {"JSON", "CSV", "BINARY", "TEXT"}

USB_DATA_STATUS == {"NOT_INITIALIZED", "READY", "WRITING", "ERROR", "FULL"}

NULL == "NULL"
\* The EFI_FILE the volume hands out for the log file.
FILE == "FILE"

NUL == "\\0"
NL == "\\n"

(***************************************************************************)
(* Memory helpers.  A C array is a sequence of fixed length, indexed from  *)
(* 1 here and from 0 in the source.                                        *)
(***************************************************************************)
RECURSIVE Repeat(_, _)
Repeat(b, n) == IF n <= 0 THEN <<>> ELSE <<b>> \o Repeat(b, n - 1)

Min(a, b) == IF a < b THEN a ELSE b

\* First n elements of s.
Take(s, n) == SubSeq(s, 1, Min(n, Len(s)))

\* AsciiStrLen: number of bytes before the first NUL.
RECURSIVE AsciiStrLen(_)
AsciiStrLen(s) ==
    IF s = <<>> \/ Head(s) = NUL THEN 0 ELSE 1 + AsciiStrLen(Tail(s))

\* The C string held in s.
AsciiStr(s) == Take(s, AsciiStrLen(s))

\* AsciiSPrint into a scratch buffer of BufferSize bytes: the rendered text
\* cut to BufferSize - 1 characters (the terminator takes the last byte).
AsciiSPrint(BufferSize, text) == Take(AsciiStr(text), BufferSize - 1)

\* CopyMem(Buffer + Offset, Source, Length) on a fixed array.
CopyMem(Buffer, Offset, Source, Length) ==
    [i \in 1..Len(Buffer) |->
        IF i > Offset /\ i <= Offset + Length THEN Source[i - Offset] ELSE Buffer[i]]

\* ZeroMem(Buffer, Length).
ZeroMem(Buffer, Length) ==
    [i \in 1..Len(Buffer) |-> IF i <= Length THEN NUL ELSE Buffer[i]]

(***************************************************************************)
(* USB_DATA_STATS, USB_DATA_BUFFER and USB_DATA_CONTEXT after ZeroMem.     *)
(***************************************************************************)
ZeroStats ==
    [TotalBytesWritten |-> 0, TotalFilesCreated |-> 0, WriteErrors |-> 0,
     BufferOverflows |-> 0, LastWriteTime |-> 0, Status |-> "NOT_INITIALIZED"]

ZeroBuffer ==
    [Buffer |-> Repeat(NUL, USB_DATA_BUFFER_SIZE), CurrentSize |-> 0,
     MaxSize |-> 0, LastWrite |-> 0]

ZeroContext ==
    [FileSystem |-> NULL, LogFile |-> NULL, DataBuffer |-> ZeroBuffer,
     Statistics |-> ZeroStats, DataFormat |-> "JSON", AutoFlush |-> FALSE,
     FileName |-> NULL, FileRotationCount |-> 0]

(***************************************************************************)
(* The machine a call runs on: the context, the bytes appended to the log  *)
(* file through the current handle, whether the line terminator was ever   *)
(* stored at an index >= MaxSize, and, of the running call, the            *)
(* WriteToFile calls it made and the line it handed to AddToBuffer.        *)
(***************************************************************************)
VARIABLES Context, File, OutOfBounds, halted, last

vars == <<Context, File, OutOfBounds, halted, last>>

Machine == [Context |-> Context, File |-> File,
            OutOfBounds |-> OutOfBounds, Calls |-> <<>>, Line |-> <<>>]

\* GetTimeCounter() and gRT->GetTime(): a reading later than the reading
\* stored before.
Later(t) == t + 1

\* Outcomes of the file protocol during one WriteToFile call.
IoOutcome == {"ok", "seek_fails", "write_fails", "flush_fails"}

\* The bytes of the buffer below the cursor.
Buffered(C) == Take(C.DataBuffer.Buffer, C.DataBuffer.CurrentSize)

(***************************************************************************)
(* WriteToFile (usb_data_transfer.c:224-261).  Each call is recorded with  *)
(* its size, the outcome of the file protocol, whether it reached the      *)
(* LogFile->Flush of line 255, and what it returned.                       *)
(***************************************************************************)
\* Variant: a successful write clears the error counter.
WriteToFile_ResetsErrors(m, Data, DataSize, io) ==
    IF m.Context.LogFile = NULL \/ DataSize = 0
    THEN [m |-> [m EXCEPT !.Calls = Append(@, [n |-> DataSize, io |-> "none", flush |-> FALSE, ret |-> EFI_INVALID_PARAMETER])],
          ret |-> EFI_INVALID_PARAMETER]
    ELSE IF io = "seek_fails"
    THEN [m |-> [m EXCEPT !.Calls = Append(@, [n |-> DataSize, io |-> io, flush |-> FALSE, ret |-> EFI_DEVICE_ERROR])],
          ret |-> EFI_DEVICE_ERROR]
    ELSE IF io = "write_fails"
    THEN [m |-> [m EXCEPT !.Context.Statistics.WriteErrors = @ + 1,
                          !.Calls = Append(@, [n |-> DataSize, io |-> io, flush |-> FALSE, ret |-> EFI_DEVICE_ERROR])],
          ret |-> EFI_DEVICE_ERROR]
    ELSE [m |-> [m EXCEPT !.File = @ \o Take(Data, DataSize),
                          !.Context.Statistics.TotalBytesWritten = @ + DataSize,
                          !.Context.Statistics.WriteErrors = 0,
                          !.Context.Statistics.LastWriteTime = Later(@),
                          !.Calls = Append(@, [n |-> DataSize, io |-> io, flush |-> TRUE, ret |-> EFI_SUCCESS])],
          ret |-> EFI_SUCCESS]

\* Variant: the rotation counter advances once the bytes written pass
\* USB_DATA_MAX_FILE_SIZE.
WriteToFile_Rotates(m, Data, DataSize, io) ==
    IF m.Context.LogFile = NULL \/ DataSize = 0
    THEN [m |-> [m EXCEPT !.Calls = Append(@, [n |-> DataSize, io |-> "none", flush |-> FALSE, ret |-> EFI_INVALID_PARAMETER])],
          ret |-> EFI_INVALID_PARAMETER]
    ELSE IF io = "seek_fails"
    THEN [m |-> [m EXCEPT !.Calls = Append(@, [n |-> DataSize, io |-> io, flush |-> FALSE, ret |-> EFI_DEVICE_ERROR])],
          ret |-> EFI_DEVICE_ERROR]
    ELSE IF io = "write_fails"
    THEN [m |-> [m EXCEPT !.Context.Statistics.WriteErrors = @ + 1,
                          !.Calls = Append(@, [n |-> DataSize, io |-> io, flush |-> FALSE, ret |-> EFI_DEVICE_ERROR])],
          ret |-> EFI_DEVICE_ERROR]
    ELSE [m |-> [m EXCEPT !.File = @ \o Take(Data, DataSize),
                          !.Context.Statistics.TotalBytesWritten = @ + DataSize,
                          !.Context.Statistics.LastWriteTime = Later(@),
                          !.Context.FileRotationCount =
                              IF m.Context.Statistics.TotalBytesWritten + DataSize
                                    > USB_DATA_MAX_FILE_SIZE
                              THEN 1 ELSE @,
                          !.Calls = Append(@, [n |-> DataSize, io |-> io, flush |-> TRUE, ret |-> EFI_SUCCESS])],
          ret |-> EFI_SUCCESS]

WriteToFile(m, Data, DataSize, io) ==
    IF m.Context.LogFile = NULL \/ DataSize = 0
    THEN [m |-> [m EXCEPT !.Calls = Append(@, [n |-> DataSize, io |-> "none", flush |-> FALSE, ret |-> EFI_INVALID_PARAMETER])],
          ret |-> EFI_INVALID_PARAMETER]
    ELSE IF io = "seek_fails"
    THEN [m |-> [m EXCEPT !.Calls = Append(@, [n |-> DataSize, io |-> io, flush |-> FALSE, ret |-> EFI_DEVICE_ERROR])],
          ret |-> EFI_DEVICE_ERROR]
    ELSE IF io = "write_fails"
    THEN [m |-> [m EXCEPT !.Context.Statistics.WriteErrors = @ + 1,
                          !.Calls = Append(@, [n |-> DataSize, io |-> io, flush |-> FALSE, ret |-> EFI_DEVICE_ERROR])],
          ret |-> EFI_DEVICE_ERROR]
    ELSE [m |-> [m EXCEPT !.File = @ \o Take(Data, DataSize),
                          !.Context.Statistics.TotalBytesWritten = @ + DataSize,
                          !.Context.Statistics.LastWriteTime = Later(@),
                          !.Calls = Append(@, [n |-> DataSize, io |-> io, flush |-> TRUE, ret |-> EFI_SUCCESS])],
          ret |-> EFI_SUCCESS]

(***************************************************************************)
(* UsbDataFlush (usb_data_transfer.c:500-537).                             *)
(***************************************************************************)
\* Variant: the buffer is cleared whatever WriteToFile returned.
UsbDataFlush_ClearsOnError(m, Force, io) ==
    LET B == m.Context.DataBuffer IN
    IF B.CurrentSize = 0 THEN [m |-> m, ret |-> EFI_SUCCESS]
    ELSE IF ~Force /\ ~m.Context.AutoFlush /\ B.CurrentSize < B.MaxSize \div 2
    THEN [m |-> m, ret |-> EFI_SUCCESS]
    ELSE
        LET m1 == [m EXCEPT !.Context.Statistics.Status = "WRITING"]
            w == WriteToFile(m1, B.Buffer, B.CurrentSize, io)
            m2 == [w.m EXCEPT !.Context.DataBuffer.Buffer = ZeroMem(@, B.CurrentSize),
                              !.Context.DataBuffer.CurrentSize = 0,
                              !.Context.DataBuffer.LastWrite = Later(@)]
        IN [m |-> [m2 EXCEPT !.Context.Statistics.Status =
                        IF EFI_ERROR(w.ret) THEN "ERROR" ELSE "READY"],
            ret |-> w.ret]

\* Variant: an empty buffer is not given an early return.
UsbDataFlush_NoEmptyCheck(m, Force, io) ==
    LET B == m.Context.DataBuffer IN
    IF ~Force /\ ~m.Context.AutoFlush /\ B.CurrentSize < B.MaxSize \div 2
    THEN [m |-> m, ret |-> EFI_SUCCESS]
    ELSE
        LET m1 == [m EXCEPT !.Context.Statistics.Status = "WRITING"]
            w == WriteToFile(m1, B.Buffer, B.CurrentSize, io)
            m2 == IF ~EFI_ERROR(w.ret)
                  THEN [w.m EXCEPT !.Context.DataBuffer.Buffer = ZeroMem(@, B.CurrentSize),
                                   !.Context.DataBuffer.CurrentSize = 0,
                                   !.Context.DataBuffer.LastWrite = Later(@)]
                  ELSE w.m
        IN [m |-> [m2 EXCEPT !.Context.Statistics.Status =
                        IF EFI_ERROR(w.ret) THEN "ERROR" ELSE "READY"],
            ret |-> w.ret]

\* Variant: the cursor is not reset after a successful write.
UsbDataFlush_KeepsCursor(m, Force, io) ==
    LET B == m.Context.DataBuffer IN
    IF B.CurrentSize = 0 THEN [m |-> m, ret |-> EFI_SUCCESS]
    ELSE IF ~Force /\ ~m.Context.AutoFlush /\ B.CurrentSize < B.MaxSize \div 2
    THEN [m |-> m, ret |-> EFI_SUCCESS]
    ELSE
        LET m1 == [m EXCEPT !.Context.Statistics.Status = "WRITING"]
            w == WriteToFile(m1, B.Buffer, B.CurrentSize, io)
            m2 == IF ~EFI_ERROR(w.ret)
                  THEN [w.m EXCEPT !.Context.DataBuffer.LastWrite = Later(@)]
                  ELSE w.m
        IN [m |-> [m2 EXCEPT !.Context.Statistics.Status =
                        IF EFI_ERROR(w.ret) THEN "ERROR" ELSE "READY"],
            ret |-> w.ret]

\* Variant: the time of the last flush is not updated.
UsbDataFlush_NoTimeUpdate(m, Force, io) ==
    LET B == m.Context.DataBuffer IN
    IF B.CurrentSize = 0 THEN [m |-> m, ret |-> EFI_SUCCESS]
    ELSE IF ~Force /\ ~m.Context.AutoFlush /\ B.CurrentSize < B.MaxSize \div 2
    THEN [m |-> m, ret |-> EFI_SUCCESS]
    ELSE
        LET m1 == [m EXCEPT !.Context.Statistics.Status = "WRITING"]
            w == WriteToFile(m1, B.Buffer, B.CurrentSize, io)
            m2 == IF ~EFI_ERROR(w.ret)
                  THEN [w.m EXCEPT !.Context.DataBuffer.Buffer = ZeroMem(@, B.CurrentSize),
                                   !.Context.DataBuffer.CurrentSize = 0]
                  ELSE w.m
        IN [m |-> [m2 EXCEPT !.Context.Statistics.Status =
                        IF EFI_ERROR(w.ret) THEN "ERROR" ELSE "READY"],
            ret |-> w.ret]

\* Variant: an unforced flush without AutoFlush is skipped whatever the
\* occupancy.
UsbDataFlush_NoThreshold(m, Force, io) ==
    LET B == m.Context.DataBuffer IN
    IF B.CurrentSize = 0 THEN [m |-> m, ret |-> EFI_SUCCESS]
    ELSE IF ~Force /\ ~m.Context.AutoFlush
    THEN [m |-> m, ret |-> EFI_SUCCESS]
    ELSE
        LET m1 == [m EXCEPT !.Context.Statistics.Status = "WRITING"]
            w == WriteToFile(m1, B.Buffer, B.CurrentSize, io)
            m2 == IF ~EFI_ERROR(w.ret)
                  THEN [w.m EXCEPT !.Context.DataBuffer.Buffer = ZeroMem(@, B.CurrentSize),
                                   !.Context.DataBuffer.CurrentSize = 0,
                                   !.Context.DataBuffer.LastWrite = Later(@)]
                  ELSE w.m
        IN [m |-> [m2 EXCEPT !.Context.Statistics.Status =
                        IF EFI_ERROR(w.ret) THEN "ERROR" ELSE "READY"],
            ret |-> w.ret]

UsbDataFlush(m, Force, io) ==
    LET B == m.Context.DataBuffer IN
    IF B.CurrentSize = 0 THEN [m |-> m, ret |-> EFI_SUCCESS]
    ELSE IF ~Force /\ ~m.Context.AutoFlush /\ B.CurrentSize < B.MaxSize \div 2
    THEN [m |-> m, ret |-> EFI_SUCCESS]
    ELSE
        LET m1 == [m EXCEPT !.Context.Statistics.Status = "WRITING"]
            w == WriteToFile(m1, B.Buffer, B.CurrentSize, io)
            m2 == IF ~EFI_ERROR(w.ret)
                  THEN [w.m EXCEPT !.Context.DataBuffer.Buffer = ZeroMem(@, B.CurrentSize),
                                   !.Context.DataBuffer.CurrentSize = 0,
                                   !.Context.DataBuffer.LastWrite = Later(@)]
                  ELSE w.m
        IN [m |-> [m2 EXCEPT !.Context.Statistics.Status =
                        IF EFI_ERROR(w.ret) THEN "ERROR" ELSE "READY"],
            ret |-> w.ret]

(***************************************************************************)
(* AddToBuffer (usb_data_transfer.c:264-333).  FormattedData is the        *)
(* scratch buffer of the caller, read as a C string.                       *)
(***************************************************************************)
\* The text AsciiSPrint renders for the timestamp prefix.
TimeStamp == Repeat("t", TimeStampLength)

\* Variant: RequiredSpace without the two extra bytes.
AddToBuffer_NoSlack(m, FormattedData, io) ==
    LET DataLength == AsciiStrLen(FormattedData)
        RequiredSpace == DataLength
        B0 == m.Context.DataBuffer
        mL == [m EXCEPT !.Line = AsciiStr(FormattedData)]
        f == IF B0.CurrentSize + RequiredSpace > B0.MaxSize
             THEN UsbDataFlush(mL, TRUE, io)
             ELSE [m |-> mL, ret |-> EFI_SUCCESS]
    IN
    IF EFI_ERROR(f.ret) THEN f
    ELSE
        LET B1 == f.m.Context.DataBuffer
            B2 == IF B1.CurrentSize = 0 /\ B1.CurrentSize + TimeStampLength <= B1.MaxSize
                  THEN [B1 EXCEPT !.Buffer = CopyMem(@, B1.CurrentSize, TimeStamp, TimeStampLength),
                                  !.CurrentSize = @ + TimeStampLength]
                  ELSE B1
        IN
        IF B2.CurrentSize + DataLength <= B2.MaxSize
        THEN
            LET B3 == [B2 EXCEPT !.Buffer = CopyMem(@, B2.CurrentSize, FormattedData, DataLength),
                                 !.CurrentSize = @ + DataLength]
                B4 == [B3 EXCEPT !.Buffer = CopyMem(@, B3.CurrentSize, <<NL>>, 1),
                                 !.CurrentSize = @ + 1]
            IN [m |-> [f.m EXCEPT !.Context.DataBuffer = B4,
                                  !.OutOfBounds = @ \/ B3.CurrentSize >= B3.MaxSize],
                ret |-> EFI_SUCCESS]
        ELSE [m |-> [f.m EXCEPT !.Context.DataBuffer = B2,
                                !.Context.Statistics.BufferOverflows = @ + 1],
              ret |-> EFI_BUFFER_TOO_SMALL]

\* Variant: no timestamp prefix is added.
AddToBuffer_NeverStamps(m, FormattedData, io) ==
    LET DataLength == AsciiStrLen(FormattedData)
        RequiredSpace == DataLength + 2
        B0 == m.Context.DataBuffer
        mL == [m EXCEPT !.Line = AsciiStr(FormattedData)]
        f == IF B0.CurrentSize + RequiredSpace > B0.MaxSize
             THEN UsbDataFlush(mL, TRUE, io)
             ELSE [m |-> mL, ret |-> EFI_SUCCESS]
    IN
    IF EFI_ERROR(f.ret) THEN f
    ELSE
        LET B2 == f.m.Context.DataBuffer
        IN
        IF B2.CurrentSize + DataLength <= B2.MaxSize
        THEN
            LET B3 == [B2 EXCEPT !.Buffer = CopyMem(@, B2.CurrentSize, FormattedData, DataLength),
                                 !.CurrentSize = @ + DataLength]
                B4 == [B3 EXCEPT !.Buffer = CopyMem(@, B3.CurrentSize, <<NL>>, 1),
                                 !.CurrentSize = @ + 1]
            IN [m |-> [f.m EXCEPT !.Context.DataBuffer = B4,
                                  !.OutOfBounds = @ \/ B3.CurrentSize >= B3.MaxSize],
                ret |-> EFI_SUCCESS]
        ELSE [m |-> [f.m EXCEPT !.Context.DataBuffer = B2,
                                !.Context.Statistics.BufferOverflows = @ + 1],
              ret |-> EFI_BUFFER_TOO_SMALL]

\* Variant: no flush is forced before the append.
AddToBuffer_NoForcedFlush(m, FormattedData, io) ==
    LET DataLength == AsciiStrLen(FormattedData)
        f == [m |-> [m EXCEPT !.Line = AsciiStr(FormattedData)], ret |-> EFI_SUCCESS]
        B1 == f.m.Context.DataBuffer
        B2 == IF B1.CurrentSize = 0 /\ B1.CurrentSize + TimeStampLength <= B1.MaxSize
              THEN [B1 EXCEPT !.Buffer = CopyMem(@, B1.CurrentSize, TimeStamp, TimeStampLength),
                              !.CurrentSize = @ + TimeStampLength]
              ELSE B1
    IN
    IF B2.CurrentSize + DataLength + 1 <= B2.MaxSize
    THEN
        LET B3 == [B2 EXCEPT !.Buffer = CopyMem(@, B2.CurrentSize, FormattedData, DataLength),
                             !.CurrentSize = @ + DataLength]
            B4 == [B3 EXCEPT !.Buffer = CopyMem(@, B3.CurrentSize, <<NL>>, 1),
                             !.CurrentSize = @ + 1]
        IN [m |-> [f.m EXCEPT !.Context.DataBuffer = B4], ret |-> EFI_SUCCESS]
    ELSE [m |-> [f.m EXCEPT !.Context.DataBuffer = B2,
                            !.Context.Statistics.BufferOverflows = @ + 1],
          ret |-> EFI_BUFFER_TOO_SMALL]

AddToBuffer(m, FormattedData, io) ==
    LET DataLength == AsciiStrLen(FormattedData)
        RequiredSpace == DataLength + 2
        B0 == m.Context.DataBuffer
        mL == [m EXCEPT !.Line = AsciiStr(FormattedData)]
        f == IF B0.CurrentSize + RequiredSpace > B0.MaxSize
             THEN UsbDataFlush(mL, TRUE, io)
             ELSE [m |-> mL, ret |-> EFI_SUCCESS]
    IN
    IF EFI_ERROR(f.ret) THEN f
    ELSE
        LET B1 == f.m.Context.DataBuffer
            \* timestamp if the buffer is empty and the prefix fits
            B2 == IF B1.CurrentSize = 0 /\ B1.CurrentSize + TimeStampLength <= B1.MaxSize
                  THEN [B1 EXCEPT !.Buffer = CopyMem(@, B1.CurrentSize, TimeStamp, TimeStampLength),
                                  !.CurrentSize = @ + TimeStampLength]
                  ELSE B1
        IN
        IF B2.CurrentSize + DataLength <= B2.MaxSize
        THEN
            LET B3 == [B2 EXCEPT !.Buffer = CopyMem(@, B2.CurrentSize, FormattedData, DataLength),
                                 !.CurrentSize = @ + DataLength]
                \* Buffer[CurrentSize++] = '\n'
                B4 == [B3 EXCEPT !.Buffer = CopyMem(@, B3.CurrentSize, <<NL>>, 1),
                                 !.CurrentSize = @ + 1]
            IN [m |-> [f.m EXCEPT !.Context.DataBuffer = B4,
                                  !.OutOfBounds = @ \/ B3.CurrentSize >= B3.MaxSize],
                ret |-> EFI_SUCCESS]
        ELSE [m |-> [f.m EXCEPT !.Context.DataBuffer = B2,
                                !.Context.Statistics.BufferOverflows = @ + 1],
              ret |-> EFI_BUFFER_TOO_SMALL]

(***************************************************************************)
(* Arguments.  A pointer argument is [null, bytes]: NULL, or the C string  *)
(* (or byte span) it points to.                                            *)
(***************************************************************************)
NullPtr == [null |-> TRUE, bytes |-> <<>>]

Ptr(bytes) == [null |-> FALSE, bytes |-> bytes]

(***************************************************************************)
(* FormatJsonString (usb_data_transfer.c:21-82): the escaped copy, or      *)
(* NULL when Input is NULL or the pool allocation fails.                   *)
(***************************************************************************)
EscapeChar(c) ==
    CASE c = "\"" -> <<"\\", "\"">>
      [] c = "\\" -> <<"\\", "\\">>
      [] c = NL -> <<"\\", "n">>
      [] c = "\\r" -> <<"\\", "r">>
      [] c = "\\t" -> <<"\\", "t">>
      [] OTHER -> <<c>>

RECURSIVE EscapeAll(_)
EscapeAll(s) == IF s = <<>> THEN <<>> ELSE EscapeChar(Head(s)) \o EscapeAll(Tail(s))

FormatJsonString(Input, allocOk) ==
    IF Input.null THEN NullPtr
    ELSE IF ~allocOk THEN NullPtr
    ELSE Ptr(EscapeAll(AsciiStr(Input.bytes)))

(***************************************************************************)
(* The text UsbDataWrite leaves in FormattedData[] for each format         *)
(* (usb_data_transfer.c:402-457), and the FormattedSize it computes.       *)
(***************************************************************************)
FormatRecord(DataFormat, Data, DataSize) ==
    CASE DataFormat = "JSON" ->
            AsciiSPrint(FormattedDataSize,
                <<"{\"size\":", ToString(DataSize), ",\"data\":\"">> \o AsciiStr(Data) \o <<"\"}">>)
      [] DataFormat = "CSV" ->
            AsciiSPrint(FormattedDataSize,
                <<ToString(DataSize), ",\"">> \o AsciiStr(Data) \o <<"\"">>)
      [] DataFormat = "BINARY" ->
            AsciiSPrint(FormattedDataSize,
                <<"BINARY_DATA_SIZE:", ToString(DataSize), NL>>)
      [] OTHER ->
            IF DataSize < FormattedDataSize
            THEN Take(Data, DataSize)
            ELSE AsciiSPrint(FormattedDataSize,
                    <<"Data too large to display (", ToString(DataSize), " bytes)", NL>>)

(***************************************************************************)
(* UsbDataWrite (usb_data_transfer.c:383-473).  io1 and io2 are the        *)
(* outcomes of the file protocol in the first and second WriteToFile.      *)
(***************************************************************************)
\* Variant: the status is not checked before writing.
UsbDataWrite_NoStatusCheck(m, Data, DataSize, Timestamp, io1, io2) ==
    IF Data.null \/ DataSize = 0 THEN [m |-> m, ret |-> EFI_INVALID_PARAMETER]
    ELSE
        LET m1 == [m EXCEPT !.Context.Statistics.Status = "WRITING"]
            FormattedData == FormatRecord(m.Context.DataFormat, Data.bytes, DataSize)
            FormattedSize == Len(FormattedData)
            r == IF m.Context.DataFormat = "BINARY"
                 THEN LET w1 == WriteToFile(m1, FormattedData, FormattedSize, io1)
                      IN IF ~EFI_ERROR(w1.ret) /\ DataSize > 0
                         THEN WriteToFile(w1.m, Data.bytes, DataSize, io2)
                         ELSE w1
                 ELSE AddToBuffer(m1, FormattedData, io1)
        IN [m |-> [r.m EXCEPT !.Context.Statistics.Status =
                        IF EFI_ERROR(r.ret) THEN "ERROR" ELSE "READY"],
            ret |-> r.ret]

\* Variant: the buffer is offered to UsbDataFlush after every append.
UsbDataWrite_FlushesAfterAppend(m, Data, DataSize, Timestamp, io1, io2) ==
    IF Data.null \/ DataSize = 0 THEN [m |-> m, ret |-> EFI_INVALID_PARAMETER]
    ELSE IF m.Context.Statistics.Status # "READY" THEN [m |-> m, ret |-> EFI_NOT_READY]
    ELSE
        LET m1 == [m EXCEPT !.Context.Statistics.Status = "WRITING"]
            FormattedData == FormatRecord(m.Context.DataFormat, Data.bytes, DataSize)
            FormattedSize == Len(FormattedData)
            r == IF m.Context.DataFormat = "BINARY"
                 THEN LET w1 == WriteToFile(m1, FormattedData, FormattedSize, io1)
                      IN IF ~EFI_ERROR(w1.ret) /\ DataSize > 0
                         THEN WriteToFile(w1.m, Data.bytes, DataSize, io2)
                         ELSE w1
                 ELSE LET a == AddToBuffer(m1, FormattedData, io1)
                      IN IF EFI_ERROR(a.ret) THEN a ELSE UsbDataFlush(a.m, FALSE, io2)
        IN [m |-> [r.m EXCEPT !.Context.Statistics.Status =
                        IF EFI_ERROR(r.ret) THEN "ERROR" ELSE "READY"],
            ret |-> r.ret]

\* Variant: the status is set back to READY on success only.
UsbDataWrite_LeavesWriting(m, Data, DataSize, Timestamp, io1, io2) ==
    IF Data.null \/ DataSize = 0 THEN [m |-> m, ret |-> EFI_INVALID_PARAMETER]
    ELSE IF m.Context.Statistics.Status # "READY" THEN [m |-> m, ret |-> EFI_NOT_READY]
    ELSE
        LET m1 == [m EXCEPT !.Context.Statistics.Status = "WRITING"]
            FormattedData == FormatRecord(m.Context.DataFormat, Data.bytes, DataSize)
            FormattedSize == Len(FormattedData)
            r == IF m.Context.DataFormat = "BINARY"
                 THEN LET w1 == WriteToFile(m1, FormattedData, FormattedSize, io1)
                      IN IF ~EFI_ERROR(w1.ret) /\ DataSize > 0
                         THEN WriteToFile(w1.m, Data.bytes, DataSize, io2)
                         ELSE w1
                 ELSE AddToBuffer(m1, FormattedData, io1)
        IN [m |-> [r.m EXCEPT !.Context.Statistics.Status =
                        IF EFI_ERROR(r.ret) THEN "WRITING" ELSE "READY"],
            ret |-> r.ret]

UsbDataWrite(m, Data, DataSize, Timestamp, io1, io2) ==
    IF Data.null \/ DataSize = 0 THEN [m |-> m, ret |-> EFI_INVALID_PARAMETER]
    ELSE IF m.Context.Statistics.Status # "READY" THEN [m |-> m, ret |-> EFI_NOT_READY]
    ELSE
        LET m1 == [m EXCEPT !.Context.Statistics.Status = "WRITING"]
            FormattedData == FormatRecord(m.Context.DataFormat, Data.bytes, DataSize)
            FormattedSize == Len(FormattedData)
            r == IF m.Context.DataFormat = "BINARY"
                 THEN LET w1 == WriteToFile(m1, FormattedData, FormattedSize, io1)
                      IN IF ~EFI_ERROR(w1.ret) /\ DataSize > 0
                         THEN WriteToFile(w1.m, Data.bytes, DataSize, io2)
                         ELSE w1
                 ELSE AddToBuffer(m1, FormattedData, io1)
        IN [m |-> [r.m EXCEPT !.Context.Statistics.Status =
                        IF EFI_ERROR(r.ret) THEN "ERROR" ELSE "READY"],
            ret |-> r.ret]

(***************************************************************************)
(* UsbDataPrintf (usb_data_transfer.c:475-498).  Rendered is the text the  *)
(* format string and its arguments expand to.                              *)
(***************************************************************************)
UsbDataPrintf(m, FormatString, Rendered, io1, io2) ==
    IF FormatString.null THEN [m |-> m, ret |-> EFI_INVALID_PARAMETER]
    ELSE
        LET FormattedBuffer == AsciiSPrint(PrintfBufferSize, Rendered)
            FormattedLength == Len(FormattedBuffer)
        IN IF FormattedLength >= PrintfBufferSize
           THEN [m |-> m, ret |-> EFI_BUFFER_TOO_SMALL]
           ELSE UsbDataWrite(m, Ptr(FormattedBuffer), FormattedLength, FALSE, io1, io2)

(***************************************************************************)
(* UsbDataGetStats (usb_data_transfer.c:539-550).                          *)
(***************************************************************************)
UsbDataGetStats(m, StatsNull) ==
    IF StatsNull THEN [m |-> m, ret |-> EFI_INVALID_PARAMETER, out |-> ZeroStats]
    ELSE [m |-> m, ret |-> EFI_SUCCESS, out |-> m.Context.Statistics]

(***************************************************************************)
(* CloseUsbDataTransfer (usb_data_transfer.c:552-583).                     *)
(***************************************************************************)
\* Variant: the file is closed without the final flush.
CloseUsbDataTransfer_NoFlush(m, io) ==
    [m |-> [m EXCEPT !.Context.LogFile = NULL,
                     !.Context.Statistics.Status = "NOT_INITIALIZED"],
     ret |-> EFI_SUCCESS]

\* Variant: the cursor is reset whatever the final flush returned.
CloseUsbDataTransfer_ResetsBuffer(m, io) ==
    LET f == IF m.Context.DataBuffer.CurrentSize > 0
             THEN UsbDataFlush(m, TRUE, io)
             ELSE [m |-> m, ret |-> EFI_SUCCESS]
    IN [m |-> [f.m EXCEPT !.Context.LogFile = NULL,
                          !.Context.DataBuffer.CurrentSize = 0,
                          !.Context.Statistics.Status = "NOT_INITIALIZED"],
        ret |-> f.ret]

CloseUsbDataTransfer(m, io) ==
    LET f == IF m.Context.DataBuffer.CurrentSize > 0
             THEN UsbDataFlush(m, TRUE, io)
             ELSE [m |-> m, ret |-> EFI_SUCCESS]
    IN [m |-> [f.m EXCEPT !.Context.LogFile = NULL,
                          !.Context.Statistics.Status = "NOT_INITIALIZED"],
        ret |-> f.ret]

(***************************************************************************)
(* UsbDataLogJson (usb_data_transfer.c:585-623).                           *)
(***************************************************************************)
UsbDataLogJson(m, LogLevel, Message, DataNull, allocOk, io) ==
    LET EscapedMessage == FormatJsonString(Message, allocOk) IN
    IF EscapedMessage.null THEN [m |-> m, ret |-> EFI_OUT_OF_RESOURCES]
    ELSE
        LET JsonBuffer ==
                AsciiSPrint(JsonBufferSize,
                    <<"{\"level\":", ToString(LogLevel), ",\"message\":\"">>
                    \o EscapedMessage.bytes
                    \o (IF ~DataNull THEN <<"\",\"hasData\":true}">> ELSE <<"\"}">>))
        IN AddToBuffer(m, JsonBuffer, io)

(***************************************************************************)
(* UsbDataLogCsv (usb_data_transfer.c:625-646).                            *)
(***************************************************************************)
UsbDataLogCsv(m, Timestamp, Category, Value, Description, io) ==
    LET CsvBuffer ==
            AsciiSPrint(CsvBufferSize,
                <<ToString(Timestamp), ",">> \o AsciiStr(Category)
                \o <<",", ToString(Value), ",\"">> \o AsciiStr(Description) \o <<"\"">>)
    IN AddToBuffer(m, CsvBuffer, io)

(***************************************************************************)
(* DetectUsbStorage (usb_data_transfer.c:85-136).  Handles is the list of  *)
(* block devices LocateHandleBuffer returns; each tells whether            *)
(* HandleProtocol(BlockIo) succeeds, what its media reports and whether    *)
(* it carries the Simple File System protocol.  The protocol pointer found *)
(* is a local of the function and is dropped on return.                    *)
(***************************************************************************)
Suitable(h) == h.BlockIo /\ h.RemovableMedia /\ h.MediaPresent /\ h.FileSystem

DetectUsbStorage(locateOk, Handles) ==
    IF ~locateOk \/ Len(Handles) = 0 THEN EFI_NOT_FOUND
    ELSE IF \E i \in 1..Len(Handles) : Suitable(Handles[i]) THEN EFI_SUCCESS
    ELSE EFI_NOT_FOUND

(***************************************************************************)
(* OpenLogFile (usb_data_transfer.c:139-222).  volume is what the call     *)
(* Context->FileSystem->OpenVolume does: "ok" or "error" through a valid   *)
(* protocol pointer; through the NULL pointer the call is undefined and    *)
(* may also never return ("crash").  open is the outcome of Root->Open.    *)
(***************************************************************************)
VolumeOutcome(C) ==
    IF C.FileSystem = NULL THEN {"ok", "error", "crash"} ELSE {"ok", "error"}

OpenLogFile(m, CreateNew, volume, open) ==
    IF volume = "crash" THEN [m |-> m, ret |-> "crash"]
    ELSE IF volume = "error" THEN [m |-> m, ret |-> EFI_DEVICE_ERROR]
    ELSE IF open # "ok" THEN [m |-> m, ret |-> EFI_DEVICE_ERROR]
    ELSE [m |-> [m EXCEPT !.Context.LogFile = FILE,
                          !.Context.FileName = "plouton_data.dat",
                          !.File = <<>>],
          ret |-> EFI_SUCCESS]

(***************************************************************************)
(* InitUsbDataTransfer (usb_data_transfer.c:337-381).                      *)
(***************************************************************************)
\* Variant: a failed OpenLogFile does not set the status to ERROR.
InitUsbDataTransfer_KeepsReady(m, Format, AutoFlush, locateOk, Handles, volume, open) ==
    LET C0 == [ZeroContext EXCEPT !.DataBuffer.MaxSize = USB_DATA_BUFFER_SIZE,
                                  !.DataFormat = Format,
                                  !.AutoFlush = AutoFlush,
                                  !.Statistics.Status = "NOT_INITIALIZED"]
        m0 == [m EXCEPT !.Context = C0]
        d == DetectUsbStorage(locateOk, Handles)
    IN
    IF EFI_ERROR(d)
    THEN [m |-> [m0 EXCEPT !.Context.Statistics.Status = "ERROR"], ret |-> d]
    ELSE
        LET m1 == [m0 EXCEPT !.Context.Statistics.Status = "READY"]
            o == OpenLogFile(m1, TRUE, volume, open)
        IN IF o.ret = "crash" THEN o
           ELSE IF EFI_ERROR(o.ret)
           THEN [m |-> o.m, ret |-> o.ret]
           ELSE [m |-> o.m, ret |-> EFI_SUCCESS]

InitUsbDataTransfer(m, Format, AutoFlush, locateOk, Handles, volume, open) ==
    LET C0 == [ZeroContext EXCEPT !.DataBuffer.MaxSize = USB_DATA_BUFFER_SIZE,
                                  !.DataFormat = Format,
                                  !.AutoFlush = AutoFlush,
                                  !.Statistics.Status = "NOT_INITIALIZED"]
        m0 == [m EXCEPT !.Context = C0]
        d == DetectUsbStorage(locateOk, Handles)
    IN
    IF EFI_ERROR(d)
    THEN [m |-> [m0 EXCEPT !.Context.Statistics.Status = "ERROR"], ret |-> d]
    ELSE
        LET m1 == [m0 EXCEPT !.Context.Statistics.Status = "READY"]
            o == OpenLogFile(m1, TRUE, volume, open)
        IN IF o.ret = "crash" THEN o
           ELSE IF EFI_ERROR(o.ret)
           THEN [m |-> [o.m EXCEPT !.Context.Statistics.Status = "ERROR"], ret |-> o.ret]
           ELSE [m |-> o.m, ret |-> EFI_SUCCESS]

(***************************************************************************)
(* Inputs of the calls.                                                    *)
(***************************************************************************)
Device(b, r, p, f) == [BlockIo |-> b, RemovableMedia |-> r, MediaPresent |-> p, FileSystem |-> f]

NoFsHandles == << Device(TRUE, TRUE, TRUE, FALSE) >>

UsbHandles ==
    << Device(FALSE, TRUE, TRUE, TRUE), Device(TRUE, FALSE, TRUE, TRUE), Device(TRUE, TRUE, TRUE, TRUE) >>

\* <<LocateHandleBuffer succeeds, the handles, what OpenVolume does,
\*   outcome of Root->Open>>
InitEnvs ==
    { <<FALSE, <<>>, "ok", "ok">>, <<TRUE, <<>>, "ok", "ok">>, <<TRUE, NoFsHandles, "ok", "ok">>,
      <<TRUE, UsbHandles, "ok", "ok">>, <<TRUE, UsbHandles, "ok", "error">>,
      <<TRUE, UsbHandles, "error", "ok">>, <<TRUE, UsbHandles, "crash", "ok">> }

\* <<Format, AutoFlush>> of the explored Init calls.
InitModes == { <<"JSON", TRUE>>, <<"CSV", FALSE>>, <<"BINARY", TRUE>>, <<"TEXT", FALSE>> }

\* Data of UsbDataWrite: NULL, an empty span, a short record, a record
\* that fills the scratch buffer.
WriteData == { NullPtr, Ptr(<<>>), Ptr(<<"a", "b", "c", "d">>), Ptr(Repeat("e", FormattedDataSize)) }

\* What the format string of UsbDataPrintf renders to.
PrintfText == { <<>>, <<"a", "b", "c", "d">> }

LogMessages == { NullPtr, Ptr(<<"m", "\"">>) }

CsvText == { <<"k">> }

(***************************************************************************)
(* The record of the last call: its name, what it returned, whether its    *)
(* arguments were valid, Force, whether the environment of Init offered a  *)
(* target and a file, whether the call before was the same call and        *)
(* returned success, the WriteToFile calls it made and the line it handed  *)
(* to AddToBuffer.                                                         *)
(***************************************************************************)
Call(op, r, valid, force, target) ==
    [op |-> op, ret |-> r.ret, valid |-> valid, force |-> force, target |-> target,
     again |-> (last.op = op /\ last.force = force /\ ~EFI_ERROR(last.ret)),
     Calls |-> r.m.Calls, line |-> r.m.Line]

\* Exploration bounds on the state a call leaves.
Explored(m) ==
    /\ Len(m.File) <= MaxFileLen
    /\ m.Context.Statistics.WriteErrors <= MaxErrors
    /\ m.Context.Statistics.BufferOverflows <= MaxErrors

Return(op, r, valid, force, target) ==
    /\ Explored(r.m)
    /\ Context' = r.m.Context
    /\ File' = r.m.File
    /\ OutOfBounds' = r.m.OutOfBounds
    /\ halted' = (r.ret = "crash")
    /\ last' = Call(op, r, valid, force, target)

(***************************************************************************)
(* Initial state: the zero-filled static context, before any call.         *)
(***************************************************************************)
Init ==
    /\ Context = ZeroContext
    /\ File = <<>>
    /\ OutOfBounds = FALSE
    /\ halted = FALSE
    /\ last = [op |-> "none", ret |-> EFI_SUCCESS, valid |-> TRUE, force |-> FALSE,
               target |-> FALSE, again |-> FALSE, Calls |-> <<>>, line |-> <<>>]

(***************************************************************************)
(* One action per public function.                                         *)
(***************************************************************************)
\* Only a binary UsbDataWrite on a READY context reaches a second
\* WriteToFile.
SecondIo ==
    IF Context.DataFormat = "BINARY" /\ Context.Statistics.Status = "READY"
    THEN IoOutcome ELSE {"ok"}

InitCall ==
    /\ ~halted
    /\ \E mode \in InitModes, env \in InitEnvs :
         /\ env[3] \in VolumeOutcome(ZeroContext)
         /\ Return("Init",
                   InitUsbDataTransfer(Machine, mode[1], mode[2], env[1], env[2], env[3], env[4]),
                   TRUE, FALSE,
                   ~EFI_ERROR(DetectUsbStorage(env[1], env[2])) /\ env[4] = "ok")

WriteCall ==
    /\ ~halted
    /\ \E Data \in WriteData, Timestamp \in BOOLEAN, io1 \in IoOutcome, io2 \in SecondIo :
         Return("Write",
                UsbDataWrite(Machine, Data, Len(Data.bytes), Timestamp, io1, io2),
                ~Data.null /\ Len(Data.bytes) > 0, FALSE, FALSE)

PrintfCall ==
    /\ ~halted
    /\ \E FormatNull \in BOOLEAN, Rendered \in PrintfText, io1 \in IoOutcome, io2 \in SecondIo :
         Return("Printf",
                UsbDataPrintf(Machine, IF FormatNull THEN NullPtr ELSE Ptr(Rendered), Rendered, io1, io2),
                ~FormatNull /\ Len(Rendered) > 0, FALSE, FALSE)

FlushCall ==
    /\ ~halted
    /\ \E Force \in BOOLEAN, io \in IoOutcome :
         Return("Flush", UsbDataFlush(Machine, Force, io), TRUE, Force, FALSE)

GetStatsCall ==
    /\ ~halted
    /\ \E StatsNull \in BOOLEAN :
         Return("GetStats", UsbDataGetStats(Machine, StatsNull), ~StatsNull, FALSE, FALSE)

CloseCall ==
    /\ ~halted
    /\ \E io \in IoOutcome :
         Return("Close", CloseUsbDataTransfer(Machine, io), TRUE, FALSE, FALSE)

LogJsonCall ==
    /\ ~halted
    /\ \E LogLevel \in {2}, Message \in LogMessages, DataNull \in {TRUE},
          allocOk \in BOOLEAN, io \in IoOutcome :
         Return("LogJson",
                UsbDataLogJson(Machine, LogLevel, Message, DataNull, allocOk, io),
                ~Message.null, FALSE, FALSE)

LogCsvCall ==
    /\ ~halted
    /\ \E Timestamp \in {7}, Category \in CsvText, Value \in {1}, Description \in CsvText,
          io \in IoOutcome :
         Return("LogCsv",
                UsbDataLogCsv(Machine, Timestamp, Category, Value, Description, io),
                TRUE, FALSE, FALSE)

Next ==
    \/ InitCall
    \/ WriteCall
    \/ PrintfCall
    \/ FlushCall
    \/ GetStatsCall
    \/ CloseCall
    \/ LogJsonCall
    \/ LogCsvCall

Spec == Init /\ [][Next]_vars

TypeOK ==
    /\ Context.Statistics.Status \in USB_DATA_STATUS
    /\ Context.DataFormat \in USB_DATA_FORMAT
    /\ Context.LogFile \in {NULL, FILE}
    /\ Len(Context.DataBuffer.Buffer) = USB_DATA_BUFFER_SIZE

(***************************************************************************)
(* Properties.                                                             *)
(***************************************************************************)
Stats == Context.Statistics

Buf == Context.DataBuffer

AppendOps == {"Write", "Printf", "LogJson", "LogCsv"}

TextFormat(C) == C.DataFormat # "BINARY"

\* C1: in every reachable state 0 <= DataBuffer.CurrentSize <= MaxSize, and
\* the line terminator AddToBuffer stores after a record has never been
\* stored at index MaxSize (or beyond).
C1_CursorWithinMaxSize ==
    /\ 0 <= Buf.CurrentSize
    /\ Buf.CurrentSize <= Buf.MaxSize
    /\ ~OutOfBounds

\* A buffer filled beyond its half by successful appends.
C1_Witness ==
    /\ last.op \in AppendOps
    /\ last.ret = EFI_SUCCESS
    /\ Buf.MaxSize > 0
    /\ 2 * Buf.CurrentSize > Buf.MaxSize

\* C2: a record-appending call (Write, Printf, LogJson, LogCsv) that returns
\* an error leaves the bytes of the buffer and CurrentSize exactly as they
\* were before the call.
C2_FailedAppendLeavesBuffer ==
    [][ (last'.op \in AppendOps /\ EFI_ERROR(last'.ret)) =>
            /\ Context'.DataBuffer.Buffer = Context.DataBuffer.Buffer
            /\ Context'.DataBuffer.CurrentSize = Context.DataBuffer.CurrentSize ]_vars

\* An append failed on its forced flush and the buffer still holds data.
C2_Witness ==
    /\ last.op \in AppendOps
    /\ EFI_ERROR(last.ret)
    /\ Len(last.Calls) = 1
    /\ last.line # <<>>
    /\ Buf.CurrentSize > 0

\* C3: a Write called while the status is not READY fails and changes
\* nothing (buffer, cursor, statistics, status, file handle, file); handed a
\* record (non-NULL data of non-zero size) it returns EFI_NOT_READY.
C3_WriteNotReady ==
    [][ (last'.op = "Write" /\ Context.Statistics.Status # "READY") =>
            /\ EFI_ERROR(last'.ret)
            /\ last'.valid => last'.ret = EFI_NOT_READY
            /\ Context' = Context
            /\ File' = File
            /\ last'.Calls = <<>> ]_vars

\* A Write with a record was turned away from a context in ERROR.
C3_Witness ==
    /\ last.op = "Write"
    /\ last.valid
    /\ last.ret = EFI_NOT_READY
    /\ Stats.Status = "ERROR"

\* C4: a text-format Write with CurrentSize + record length + 2 > MaxSize
\* makes exactly one WriteToFile call, over the whole buffer; when that
\* call succeeds TotalBytesWritten grows by the old CurrentSize, the file
\* gains the old buffer, the buffer then holds the timestamp and the new
\* record only, and BufferOverflows is unchanged.  A Write that fits makes
\* no WriteToFile call.
C4_ForcedFlushOnOverflow ==
    [][ (last'.op = "Write" /\ last'.valid /\ Context.Statistics.Status = "READY"
            /\ TextFormat(Context)) =>
          LET over == Context.DataBuffer.CurrentSize + Len(last'.line) + 2
                          > Context.DataBuffer.MaxSize
          IN /\ ~over => last'.Calls = <<>>
             /\ over => /\ Len(last'.Calls) = 1
                        /\ last'.Calls[1].n = Context.DataBuffer.CurrentSize
             /\ (over /\ last'.Calls[1].ret = EFI_SUCCESS) =>
                    /\ last'.ret = EFI_SUCCESS
                    /\ File' = File \o Buffered(Context)
                    /\ Context'.Statistics.TotalBytesWritten =
                          Context.Statistics.TotalBytesWritten + Context.DataBuffer.CurrentSize
                    /\ Buffered(Context') = TimeStamp \o last'.line \o <<NL>>
                    /\ Context'.Statistics.BufferOverflows = Context.Statistics.BufferOverflows
      ]_vars

\* A Write has flushed the full buffer and appended its record.
C4_Witness ==
    /\ last.op = "Write"
    /\ last.ret = EFI_SUCCESS
    /\ TextFormat(Context)
    /\ Len(last.Calls) = 1
    /\ last.Calls[1].ret = EFI_SUCCESS
    /\ Buffered(Context) = TimeStamp \o last.line \o <<NL>>

\* C5 as stated: a Flush(force) that directly follows a Flush(force),
\* whatever the first returned, makes no WriteToFile call and leaves the
\* statistics unchanged.
C5_SecondFlushAlwaysNoOp ==
    [][ (last.op = "Flush" /\ last.force /\ last'.op = "Flush" /\ last'.force) =>
            /\ last'.Calls = <<>>
            /\ Context'.Statistics = Context.Statistics ]_vars

\* C5 amended: a Flush(force) that directly follows a Flush(force) that
\* returned success makes no WriteToFile call, returns success and leaves
\* the statistics, the buffer and the file unchanged.
C5_SecondFlushAfterSuccessNoOp ==
    [][ (last.op = "Flush" /\ last.force /\ ~EFI_ERROR(last.ret)
            /\ last'.op = "Flush" /\ last'.force) =>
            /\ last'.Calls = <<>>
            /\ last'.ret = EFI_SUCCESS
            /\ Context' = Context
            /\ File' = File ]_vars

\* Two forced flushes in a row, the first of which wrote the buffer out.
C5_Witness ==
    /\ last.op = "Flush"
    /\ last.force
    /\ last.again
    /\ Stats.TotalBytesWritten > 0
    /\ Stats.Status = "READY"

\* C6 as stated: no call, Init included, decreases TotalBytesWritten or
\* WriteErrors.
C6_CountersNeverDecrease ==
    [][ /\ Context'.Statistics.TotalBytesWritten >= Context.Statistics.TotalBytesWritten
        /\ Context'.Statistics.WriteErrors >= Context.Statistics.WriteErrors ]_vars

\* C6 amended: Write, Printf, LogJson, LogCsv, Flush, GetStats and Close
\* never decrease TotalBytesWritten or WriteErrors; Init sets both to 0.
C6_CountersMonotoneUntilInit ==
    [][ /\ last'.op # "Init" =>
              /\ Context'.Statistics.TotalBytesWritten >= Context.Statistics.TotalBytesWritten
              /\ Context'.Statistics.WriteErrors >= Context.Statistics.WriteErrors
        /\ last'.op = "Init" =>
              /\ Context'.Statistics.TotalBytesWritten = 0
              /\ Context'.Statistics.WriteErrors = 0 ]_vars

\* Both counters have grown and the last call grew one of them.
C6_Witness ==
    /\ Stats.TotalBytesWritten > 0
    /\ Stats.WriteErrors > 0
    /\ last.op # "Init"
    /\ last.Calls # <<>>

\* Some call other than Init, with some outcome of the file protocol,
\* leaves the status READY.
Ready(r) == r.m.Context.Statistics.Status = "READY"

CanRecover ==
    \E io1 \in IoOutcome, io2 \in IoOutcome :
        \/ \E Data \in WriteData, Timestamp \in BOOLEAN :
                Ready(UsbDataWrite(Machine, Data, Len(Data.bytes), Timestamp, io1, io2))
        \/ \E Rendered \in PrintfText :
                Ready(UsbDataPrintf(Machine, Ptr(Rendered), Rendered, io1, io2))
        \/ \E Force \in BOOLEAN : Ready(UsbDataFlush(Machine, Force, io1))
        \/ \E Message \in LogMessages : Ready(UsbDataLogJson(Machine, 2, Message, TRUE, TRUE, io1))
        \/ \E Text \in CsvText : Ready(UsbDataLogCsv(Machine, 7, Text, 1, Text, io1))

\* C7: a context left in ERROR by a failed Write or Flush (it has its open
\* file, so Init had succeeded) is able to recover without Init: some next
\* call (a Write, or any other call that writes) leaves the status READY.
C7_ErrorCanRecover ==
    (Stats.Status = "ERROR" /\ Context.LogFile # NULL) => CanRecover

\* C8: an Init that finds a present removable device with a file system,
\* and whose file creation succeeds, returns success with a file-system
\* reference and an open file in the context, status READY, an empty buffer
\* and zero counters.
C8_InitSucceeds ==
    (last.op = "Init" /\ last.target) =>
        /\ last.ret = EFI_SUCCESS
        /\ Context.FileSystem # NULL
        /\ Context.LogFile # NULL
        /\ Stats.Status = "READY"
        /\ Buf.CurrentSize = 0
        /\ Stats.TotalBytesWritten = 0
        /\ Stats.WriteErrors = 0
        /\ Stats.BufferOverflows = 0

\* C9: an Init that returns an error leaves status ERROR and no file
\* handle; while there is no file handle, that is until an Init succeeds,
\* the status is never READY and every Write or Printf fails, with
\* EFI_NOT_READY when handed a record.
C9_FailedInitBlocksWrites ==
    [][ /\ (last'.op = "Init" /\ ~halted' /\ EFI_ERROR(last'.ret)) =>
              /\ Context'.Statistics.Status = "ERROR"
              /\ Context'.LogFile = NULL
        /\ (Context.LogFile = NULL /\ ~(last'.op = "Init" /\ last'.ret = EFI_SUCCESS)) =>
              /\ Context'.LogFile = NULL
              /\ halted' \/ Context'.Statistics.Status # "READY"
              /\ last'.op \in {"Write", "Printf"} =>
                    /\ EFI_ERROR(last'.ret)
                    /\ last'.valid => last'.ret = EFI_NOT_READY ]_vars

\* A Write with a record was turned away after a failed Init.
C9_Witness ==
    /\ last.op = "Write"
    /\ last.valid
    /\ last.ret = EFI_NOT_READY
    /\ Stats.Status = "ERROR"
    /\ Context.LogFile = NULL
    /\ Buf.CurrentSize = 0

\* C10: after Close the file handle is NULL and the status NOT_INITIALIZED;
\* with a non-empty buffer Close made exactly one WriteToFile call, over the
\* whole buffer, and with an empty buffer none; when Close returns success
\* the buffer is empty and the file has gained the bytes that were buffered.
C10_CloseFlushesAndReleases ==
    [][ last'.op = "Close" =>
            /\ Context'.LogFile = NULL
            /\ Context'.Statistics.Status = "NOT_INITIALIZED"
            /\ Context.DataBuffer.CurrentSize > 0 =>
                  /\ Len(last'.Calls) = 1
                  /\ last'.Calls[1].n = Context.DataBuffer.CurrentSize
            /\ Context.DataBuffer.CurrentSize = 0 => last'.Calls = <<>>
            /\ last'.ret = EFI_SUCCESS =>
                  /\ Context'.DataBuffer.CurrentSize = 0
                  /\ File' = File \o Buffered(Context) ]_vars

\* A Close wrote the buffered bytes out and returned success.
C10_Witness ==
    /\ last.op = "Close"
    /\ last.ret = EFI_SUCCESS
    /\ Len(last.Calls) = 1
    /\ File # <<>>
    /\ Context.LogFile = NULL

\* C11: a Close that directly follows a Close, however the first one ended,
\* returns success and changes neither the context (buffer, statistics,
\* status, file handle) nor the file.
C11_CloseIdempotent ==
    [][ (last.op = "Close" /\ last'.op = "Close") =>
            /\ last'.ret = EFI_SUCCESS
            /\ Context' = Context
            /\ File' = File ]_vars

C13_BinaryWriteFlushesPending ==
    [][ (last'.op = "Write" /\ last'.valid /\ Context.Statistics.Status = "READY"
            /\ Context.DataFormat = "BINARY") =>
            /\ Context'.DataBuffer.CurrentSize <= Context.DataBuffer.CurrentSize
            /\ last'.ret = EFI_SUCCESS =>
                  /\ Context'.DataBuffer.CurrentSize = 0
                  /\ Take(File', Len(File) + Context.DataBuffer.CurrentSize)
                        = File \o Buffered(Context) ]_vars

\* C14: every Write, Printf, LogJson or LogCsv call that hands over a record
\* either stores it (returns success) or increments WriteErrors or
\* BufferOverflows, on every rejection path (a LogJson call turned away for
\* lack of memory aside).
C14_NoUncountedDrop ==
    [][ (last'.op \in AppendOps /\ last'.valid /\ last'.ret # EFI_OUT_OF_RESOURCES) =>
            \/ ~EFI_ERROR(last'.ret)
            \/ Context'.Statistics.WriteErrors > Context.Statistics.WriteErrors
            \/ Context'.Statistics.BufferOverflows > Context.Statistics.BufferOverflows ]_vars

\* C15: a Flush that reaches WriteToFile calls it exactly once.  When it
\* succeeds the buffer is all zero, CurrentSize is 0, LastWrite is updated
\* and the file has gained the buffered bytes.  When it fails the buffer,
\* CurrentSize and the file are as before, and a following forced Flush that
\* succeeds appends exactly the bytes that were buffered.
C15_FlushOutcome ==
    [][ (last'.op = "Flush" /\ last'.Calls # <<>>) =>
            /\ Len(last'.Calls) = 1
            /\ ~EFI_ERROR(last'.ret) =>
                  /\ Context'.DataBuffer.Buffer = Repeat(NUL, USB_DATA_BUFFER_SIZE)
                  /\ Context'.DataBuffer.CurrentSize = 0
                  /\ Context'.DataBuffer.LastWrite > Context.DataBuffer.LastWrite
                  /\ File' = File \o Buffered(Context)
            /\ EFI_ERROR(last'.ret) =>
                  /\ Context'.DataBuffer.Buffer = Context.DataBuffer.Buffer
                  /\ Context'.DataBuffer.CurrentSize = Context.DataBuffer.CurrentSize
                  /\ File' = File
                  /\ LET retry == UsbDataFlush([Context |-> Context', File |-> File',
                                                OutOfBounds |-> OutOfBounds',
                                                Calls |-> <<>>, Line |-> <<>>], TRUE, "ok")
                     IN ~EFI_ERROR(retry.ret) =>
                            /\ Len(retry.m.Calls) = 1
                            /\ retry.m.File = File \o Buffered(Context) ]_vars

\* A Flush failed on the write and left the buffered bytes in place, with
\* the file still open for the retry.
C15_Witness ==
    /\ last.op = "Flush"
    /\ EFI_ERROR(last.ret)
    /\ Len(last.Calls) = 1
    /\ last.Calls[1].io = "write_fails"
    /\ Buf.CurrentSize > 0
    /\ Context.LogFile # NULL
    /\ Stats.Status = "ERROR"

\* C16: Flush makes no WriteToFile call, returns success and changes nothing
\* when the buffer is empty, and also when Force is FALSE, AutoFlush is
\* FALSE and CurrentSize < MaxSize / 2; in every other case it makes exactly
\* one WriteToFile call, over the whole buffer.
C16_FlushTriggerPolicy ==
    [][ last'.op = "Flush" =>
          LET B == Context.DataBuffer
              skipped == \/ B.CurrentSize = 0
                         \/ (~last'.force /\ ~Context.AutoFlush
                                /\ B.CurrentSize < B.MaxSize \div 2)
          IN /\ skipped => /\ last'.Calls = <<>>
                           /\ last'.ret = EFI_SUCCESS
                           /\ Context' = Context
                           /\ File' = File
             /\ ~skipped => /\ Len(last'.Calls) = 1
                            /\ last'.Calls[1].n = B.CurrentSize
                            /\ ~EFI_ERROR(last'.ret) => File' = File \o Buffered(Context) ]_vars

\* An unforced Flush without AutoFlush skipped a buffer filled below half.
C16_Witness ==
    /\ last.op = "Flush"
    /\ ~last.force
    /\ ~Context.AutoFlush
    /\ last.Calls = <<>>
    /\ Buf.CurrentSize > 0
    /\ Buf.CurrentSize < Buf.MaxSize \div 2

(***************************************************************************)
(* Reading a structured-object line back.  The string that starts after    *)
(* the opening quote ends at the first quote that is not escaped; a        *)
(* backslash must be followed by one of the escape letters; a raw control  *)
(* character is not allowed; the closing quote must be followed by the     *)
(* end of the object and nothing else.                                     *)
(***************************************************************************)
JsonAlphabet == {"a", "\"", "\\", NL, "\\r", "\\t"}

\* The strings of one or two characters over the alphabet.
JsonStrings ==
    { <<c>> : c \in JsonAlphabet } \cup { <<c, d>> : c \in JsonAlphabet, d \in JsonAlphabet }

Unescape(c) ==
    CASE c = "\"" -> "\""
      [] c = "\\" -> "\\"
      [] c = "n" -> NL
      [] c = "r" -> "\\r"
      [] c = "t" -> "\\t"
      [] OTHER -> NULL

\* The literal runs that close the string and the object.
JsonClosers == {"\"}", "\",\"hasData\":true}"}

RECURSIVE DecodeChars(_)
DecodeChars(s) ==
    IF s = <<>> THEN NullPtr
    ELSE IF Head(s) \in JsonClosers
    THEN (IF Tail(s) = <<>> THEN Ptr(<<>>) ELSE NullPtr)
    ELSE IF Head(s) \in {"\"", NL, "\\r", "\\t"} THEN NullPtr
    ELSE IF Head(s) = "\\"
    THEN IF Len(s) < 2 \/ Unescape(s[2]) = NULL THEN NullPtr
         ELSE LET rest == DecodeChars(Tail(Tail(s)))
              IN IF rest.null THEN NullPtr ELSE Ptr(<<Unescape(s[2])>> \o rest.bytes)
    ELSE LET rest == DecodeChars(Tail(s))
         IN IF rest.null THEN NullPtr ELSE Ptr(<<Head(s)>> \o rest.bytes)

\* The string embedded in a line of UsbDataWrite or UsbDataLogJson: what
\* follows the key, the number and the second key.  NullPtr when the line
\* does not decode.
JsonDecode(line) ==
    IF Len(line) < 4 THEN NullPtr ELSE DecodeChars(SubSeq(line, 4, Len(line)))

\* C17: on a READY context, for every string s of JsonStrings, the line a
\* successful UsbDataLogJson stores for the message s, and under the JSON
\* format the line a successful UsbDataWrite stores for the data s, decodes
\* to s.
C17_JsonRoundTrip ==
    Stats.Status = "READY" =>
        \A s \in JsonStrings :
            /\ LET r == UsbDataLogJson(Machine, 2, Ptr(s), TRUE, TRUE, "ok")
               IN ~EFI_ERROR(r.ret) => JsonDecode(r.m.Line) = Ptr(s)
            /\ Context.DataFormat = "JSON" =>
                  LET r == UsbDataWrite(Machine, Ptr(s), Len(s), FALSE, "ok", "ok")
                  IN ~EFI_ERROR(r.ret) => JsonDecode(r.m.Line) = Ptr(s)

(***************************************************************************)
(* What the format strings of UsbDataWrite render to when nothing is cut   *)
(* (usb_data_transfer.c:412, 424), and the size report (452).              *)
(***************************************************************************)
FullRecord(DataFormat, Data, DataSize) ==
    CASE DataFormat = "JSON" ->
            <<"{\"size\":", ToString(DataSize), ",\"data\":\"">> \o AsciiStr(Data) \o <<"\"}">>
      [] DataFormat = "CSV" ->
            <<ToString(DataSize), ",\"">> \o AsciiStr(Data) \o <<"\"">>
      [] OTHER -> Take(Data, DataSize)

SizeReport(DataSize) ==
    <<"Data too large to display (", ToString(DataSize), " bytes)", NL>>

\* The records of WriteData.
Records == { Data \in WriteData : ~Data.null /\ Len(Data.bytes) > 0 }

\* C18: on a READY context with a text format, the line a successful
\* UsbDataWrite stores for a record is the whole formatted record or else
\* the size report, never a record cut short, and is no longer than the
\* scratch buffer allows.
C18_NeverCutShort ==
    (Stats.Status = "READY" /\ TextFormat(Context)) =>
        \A Data \in Records :
            LET DataSize == Len(Data.bytes)
                r == UsbDataWrite(Machine, Data, DataSize, FALSE, "ok", "ok")
            IN ~EFI_ERROR(r.ret) =>
                  /\ Len(r.m.Line) <= FormattedDataSize - 1
                  /\ \/ r.m.Line = FullRecord(Context.DataFormat, Data.bytes, DataSize)
                     \/ r.m.Line = SizeReport(DataSize)

\* The bytes a call has added to the buffer: all of it after a flush, else
\* what follows the bytes buffered before.
Appended(r) ==
    LET after == Buffered(r.m.Context)
    IN IF r.m.Calls # <<>> THEN after
       ELSE SubSeq(after, Context.DataBuffer.CurrentSize + 1, Len(after))

\* C19: on a READY context with a text format, a successful UsbDataWrite
\* with Timestamp = FALSE adds the record and the line terminator only, and
\* one with Timestamp = TRUE adds the timestamp prefix before the record.
C19_TimestampArgumentDecides ==
    (Stats.Status = "READY" /\ TextFormat(Context)) =>
        \A Data \in Records :
            LET DataSize == Len(Data.bytes)
                r0 == UsbDataWrite(Machine, Data, DataSize, FALSE, "ok", "ok")
                r1 == UsbDataWrite(Machine, Data, DataSize, TRUE, "ok", "ok")
            IN /\ ~EFI_ERROR(r0.ret) => Appended(r0) = r0.m.Line \o <<NL>>
               /\ ~EFI_ERROR(r1.ret) => Appended(r1) = TimeStamp \o r1.m.Line \o <<NL>>

C21_FailedForcedFlushCounted ==
    [][ (last'.op \in AppendOps /\ last'.line # <<>>
            /\ Context.DataBuffer.CurrentSize > 0
            /\ Context.DataBuffer.CurrentSize + Len(last'.line) + 2
                    > Context.DataBuffer.MaxSize) =>
            /\ Len(last'.Calls) = 1
            /\ last'.Calls[1].n = Context.DataBuffer.CurrentSize
            /\ EFI_ERROR(last'.Calls[1].ret) =>
                  /\ last'.ret = last'.Calls[1].ret
                  /\ Context'.DataBuffer.Buffer = Context.DataBuffer.Buffer
                  /\ Context'.DataBuffer.CurrentSize = Context.DataBuffer.CurrentSize
                  /\ \/ Context'.Statistics.WriteErrors > Context.Statistics.WriteErrors
                     \/ Context'.Statistics.BufferOverflows
                            > Context.Statistics.BufferOverflows ]_vars

\* Number of WriteToFile calls of a call that returned an error, and number
\* of bytes handed to those that returned success.
RECURSIVE FailedCalls(_)
FailedCalls(calls) ==
    IF calls = <<>> THEN 0
    ELSE (IF EFI_ERROR(Head(calls).ret) THEN 1 ELSE 0) + FailedCalls(Tail(calls))

RECURSIVE BytesPersisted(_)
BytesPersisted(calls) ==
    IF calls = <<>> THEN 0
    ELSE (IF EFI_ERROR(Head(calls).ret) THEN 0 ELSE Head(calls).n) + BytesPersisted(Tail(calls))

\* C22: in every call but Init, WriteErrors grows by the number of
\* WriteToFile calls that returned an error (whichever step failed),
\* TotalBytesWritten and the file grow by the bytes of the calls that
\* returned success, and LastWriteTime changes when one did.
C22_PersistAccounting ==
    [][ last'.op # "Init" =>
            /\ Context'.Statistics.WriteErrors
                    = Context.Statistics.WriteErrors + FailedCalls(last'.Calls)
            /\ Context'.Statistics.TotalBytesWritten
                    = Context.Statistics.TotalBytesWritten + BytesPersisted(last'.Calls)
            /\ Len(File') = Len(File) + BytesPersisted(last'.Calls)
            /\ BytesPersisted(last'.Calls) > 0 =>
                    Context'.Statistics.LastWriteTime > Context.Statistics.LastWriteTime ]_vars

\* C23: every WriteToFile call that attempted the write (it had a file
\* handle and the seek succeeded) went on to request the durability flush,
\* whether the write succeeded or failed, and a call whose durability flush
\* failed returned success.
C23_DurabilityFlushAlways ==
    [][ \A i \in 1..Len(last'.Calls) :
            LET c == last'.Calls[i]
            IN /\ c.io \in {"ok", "write_fails", "flush_fails"} => c.flush
               /\ c.io = "flush_fails" => c.ret = EFI_SUCCESS ]_vars

\* C24: Init leaves READY or ERROR, Close leaves NOT_INITIALIZED, GetStats
\* leaves the status alone; WriteToFile (and so WRITING) is reached only
\* from READY or ERROR; and no Write, Printf, Flush, LogJson or LogCsv call
\* changes the status of a NOT_INITIALIZED context.
C24_StatusStateMachine ==
    [][ ~halted' =>
          /\ last'.op = "Init" => Context'.Statistics.Status \in {"READY", "ERROR"}
          /\ last'.op = "Close" => Context'.Statistics.Status = "NOT_INITIALIZED"
          /\ last'.op = "GetStats" => Context'.Statistics.Status = Context.Statistics.Status
          /\ (last'.op \in AppendOps \cup {"Flush"}) =>
                /\ last'.Calls # <<>> => Context.Statistics.Status \in {"READY", "ERROR"}
                /\ Context.Statistics.Status = "NOT_INITIALIZED" =>
                        Context'.Statistics.Status = "NOT_INITIALIZED" ]_vars

\* Number of timestamp bytes among bytes.
StampBytes(bytes) == Len(SelectSeq(bytes, LAMBDA b : b = Head(TimeStamp)))

\* C25: a successful append adds the timestamp prefix before its record
\* exactly when the buffer is empty at that point (it was empty, or the
\* forced flush of this append has just emptied it) and the prefix fits,
\* and adds none when the buffer holds data; an append fails with
\* EFI_BUFFER_TOO_SMALL only when the record alone does not fit, no prefix
\* having been added.  Hence a non-empty buffer, which is what Flush hands
\* to WriteToFile, begins with the prefix and holds exactly one.
C25_TimestampWhenEmpty ==
    [][ /\ (last'.op \in AppendOps /\ last'.line # <<>>) =>
              LET B == Context.DataBuffer
                  emptied == last'.Calls # <<>> /\ ~EFI_ERROR(last'.Calls[1].ret)
                  size == IF emptied THEN 0 ELSE B.CurrentSize
                  stamp == IF size = 0 /\ TimeStampLength <= B.MaxSize
                           THEN TimeStamp ELSE <<>>
              IN /\ ~EFI_ERROR(last'.ret) =>
                        Buffered(Context') =
                            (IF emptied THEN <<>> ELSE Buffered(Context))
                            \o stamp \o last'.line \o <<NL>>
                 /\ last'.ret = EFI_BUFFER_TOO_SMALL =>
                        /\ stamp = <<>>
                        /\ size + Len(last'.line) > B.MaxSize
                        /\ Context'.DataBuffer.CurrentSize = size
        /\ Context'.DataBuffer.CurrentSize > 0 =>
              /\ Take(Buffered(Context'), TimeStampLength) = TimeStamp
              /\ StampBytes(Buffered(Context')) = TimeStampLength ]_vars

\* A second record was appended behind the first without a new prefix.
C25_Witness ==
    /\ last.op \in AppendOps
    /\ last.ret = EFI_SUCCESS
    /\ last.Calls = <<>>
    /\ Buf.CurrentSize > TimeStampLength + Len(last.line) + 1
    /\ StampBytes(Buffered(Context)) = TimeStampLength

\* C26: after every call that returns, the status is NOT_INITIALIZED, READY
\* or ERROR: never WRITING, never FULL.
C26_StatusAfterReturn ==
    ~halted => Stats.Status \in {"NOT_INITIALIZED", "READY", "ERROR"}

\* A Write went through WriteToFile, failed there, and left ERROR behind.
C26_Witness ==
    /\ last.op = "Write"
    /\ last.Calls # <<>>
    /\ EFI_ERROR(last.ret)
    /\ Stats.Status = "ERROR"

\* C27: in a context whose format is not binary, no call but Init changes
\* the file followed by the buffered bytes, except that a record-appending
\* call that returns success adds its record (with the timestamp prefix
\* when the buffer was empty at that point) at the end: a failed or
\* successful flush, a retried flush and a Close neither duplicate, reorder
\* nor lose a record.
C27_AcceptedRecordsKept ==
    [][ (Context.DataFormat # "BINARY" /\ last'.op # "Init") =>
          LET before == File \o Buffered(Context)
              after == File' \o Buffered(Context')
              emptied == last'.Calls # <<>> /\ ~EFI_ERROR(last'.Calls[1].ret)
              stamp == IF emptied \/ Context.DataBuffer.CurrentSize = 0
                       THEN TimeStamp ELSE <<>>
          IN IF last'.op \in AppendOps /\ ~EFI_ERROR(last'.ret)
             THEN after = before \o stamp \o last'.line \o <<NL>>
             ELSE after = before ]_vars

\* After an earlier write failure, a flush has added a second batch to the
\* file.
C27_Witness ==
    /\ Context.DataFormat # "BINARY"
    /\ last.op \in {"Flush", "Close"}
    /\ last.ret = EFI_SUCCESS
    /\ Len(last.Calls) = 1
    /\ Len(File) > last.Calls[1].n
    /\ Stats.WriteErrors > 0

C29_NotReadyUntouched ==
    [][ (last'.op \in AppendOps /\ Context.Statistics.Status # "READY") =>
            /\ Context'.DataBuffer.Buffer = Context.DataBuffer.Buffer
            /\ Context'.DataBuffer.CurrentSize = Context.DataBuffer.CurrentSize
            /\ Context'.Statistics.Status = Context.Statistics.Status
            /\ File' = File ]_vars

\* C30: a binary Write on a READY context either leaves the file as it was
\* or has added both the header and the payload: both WriteToFile calls
\* were made and returned success.
C30_NoTornBinaryRecord ==
    [][ (last'.op = "Write" /\ last'.valid /\ Context.Statistics.Status = "READY"
            /\ Context.DataFormat = "BINARY") =>
            \/ File' = File
            \/ /\ Len(last'.Calls) = 2
               /\ ~EFI_ERROR(last'.Calls[2].ret)
               /\ Len(File') = Len(File) + last'.Calls[1].n + last'.Calls[2].n ]_vars

====
